---- MODULE Spec2Model ----
(***************************************************************************)
(* Model of the pronunciation-analysis core of quran-memorizer:            *)
(*   backend/ai/audio_processing/pronunciation_analyzer.py                 *)
(*   backend/ai/audio_processing/tajweed_engine.py                         *)
(*   backend/ai/audio_processing/asr_engine.py                             *)
(*                                                                         *)
(* The methods of the core keep no state between calls, so every method is *)
(* modelled as an operator computed the way the code computes it, and is   *)
(* exercised by one action: Init draws the method (op) and its arguments   *)
(* (args) from bounded sets, the action applies the method and stores what *)
(* the call produced (ret), and pc moves from "call" to "done".            *)
(*                                                                         *)
(* A call's outcome is a record [exc, val]: exc = "none" and val the       *)
(* returned value, or exc the name of the Python exception that left the   *)
(* call.                                                                   *)
(*                                                                         *)
(* Floats are fixed-point integers with ONE standing for 1.0; the input    *)
(* sets are chosen so that every product and quotient the code forms is    *)
(* exact in that representation.  +infinity is a value of its own          *)
(* (PosInf), as numpy produces it.                                         *)
(*                                                                         *)
(* A method that reads no attribute of its instance is modelled on its     *)
(* arguments alone.  The rule catalog is the one attribute the lookups     *)
(* read; it is built by TajweedEngine.__init__, which is modelled with the *)
(* calls made on the new engine (section "Rule catalog"): it constructs    *)
(* TajweedRule objects without the required field `letters`                *)
(* (tajweed_engine.py, lines 88-94 against line 17) and raises TypeError.  *)
(***************************************************************************)
EXTENDS Integers, Sequences, FiniteSets, TLC

VARIABLES
    op,          \* the method under call
    args,        \* its arguments (and the outcomes of the collaborators it calls)
    ret,         \* what the call produced, NotCalled before it ran
    pc           \* "call" before the method ran, "done" after

vars == <<op, args, ret, pc>>

NotCalled == [exc |-> "not_called", val |-> <<>>]
Returned(v) == [exc |-> "none", val |-> v]
Raised(e) == [exc |-> e, val |-> <<>>]

(***************************************************************************)
(* Bounds of the model.                                                    *)
(***************************************************************************)
MaxSeqLen == 2        \* longest feature sequence given to the aligner
MaxScores == 2        \* most entries of a phoneme-score or prosody-score map
MaxViolations == 2    \* violation counts 0..MaxViolations, and ManyViolations
ManyViolations == 13  \* a violation count large enough to exhaust the Tajweed term
MaxErrors == 2        \* longest enumerated list of classified errors
ManyErrors == 50      \* length of the all-critical error list
MaxTextLen == 4       \* longest diacritic text given to the rule engine
MaxWordTextLen == 4   \* longest text given to the word aligner
MaxProsodyKeys == 2   \* most features held by one prosody summary
MaxCalls == 2         \* most calls made on one engine
MaxRefs == 2          \* most reference recordings of one comparison
MaxReported == 4      \* most violations handed to the suggestion generator
MaxRequests == 2      \* analyze_recitation requests in flight
MaxAnalyses == 2      \* analyses compared for their Tajweed violations
MaxTranscriptLen == 2 \* longest ASR transcript of a compared analysis
MaxReviews == 10      \* update_card calls made on one card

(***************************************************************************)
(* Fixed-point floats.                                                     *)
(***************************************************************************)
ONE == 6000           \* the float 1.0

Fin(v) == [inf |-> FALSE, v |-> v]
PosInf == [inf |-> TRUE, v |-> 0]

\* a + b for a finite a and a possibly infinite b
FAdd(a, b) == IF a.inf \/ b.inf THEN PosInf ELSE Fin(a.v + b.v)

FLess(a, b) == IF a.inf THEN FALSE ELSE IF b.inf THEN TRUE ELSE a.v < b.v

\* the smaller of the first two arguments, the third left out
PyMin3_first_two(a, b, c) == IF FLess(b, a) THEN b ELSE a

\* Python's min(a, b, c): the first of the smallest
PyMin3(a, b, c) ==
    LET ab == IF FLess(b, a) THEN b ELSE a
    IN  IF FLess(c, ab) THEN c ELSE ab

\* x / k for an integer k > 0 (inf / k = inf)
FDivInt(x, k) == IF x.inf THEN PosInf ELSE Fin(x.v \div k)

Max(a, b) == IF a >= b THEN a ELSE b
Min(a, b) == IF a <= b THEN a ELSE b
Abs(a) == IF a < 0 THEN -a ELSE a

SeqsUpTo(S, n) == UNION {[1..k -> S] : k \in 0..n}

RECURSIVE SumSeq(_)
SumSeq(s) == IF s = <<>> THEN 0 ELSE Head(s) + SumSeq(Tail(s))

(***************************************************************************)
(* Sequence aligner: PronunciationAnalyzer.calculate_dtw_distance          *)
(***************************************************************************)
\* Feature vectors (two coefficients each), chosen so that every pairwise
\* Euclidean distance is an integer: 0, 3, 4 or 5.
FeatureVectors == {<<0, 0>>, <<3, 0>>, <<3, 4>>}

FeatureSeqs == SeqsUpTo(FeatureVectors, MaxSeqLen)

Isqrt(x) == CHOOSE r \in 0..x : r * r <= x /\ (r + 1) * (r + 1) > x

\* np.linalg.norm(u - v)
linalg_norm_diff(u, v) ==
    Fin(ONE * Isqrt((u[1] - v[1]) * (u[1] - v[1]) + (u[2] - v[2]) * (u[2] - v[2])))

\* the cell update of the DTW recurrence (lines 146-152), with max in place
\* of min
dtw_cell_max(local_distance, up, left, diag) ==
    FAdd(local_distance, IF up.inf \/ left.inf THEN PosInf
                         ELSE Fin(Max(Max(up.v, left.v), diag.v)))

\* the cell update of the DTW recurrence (lines 146-152)
dtw_cell(local_distance, up, left, diag) ==
    FAdd(local_distance, PyMin3(up, left, diag))

\* cost_matrix after the two loops: np.full((n+1, m+1), inf), [0,0] = 0, and
\* every cell with i, j >= 1 filled in row order from its three neighbours
cost_matrix(features1, features2) ==
    LET n == Len(features1)
        m == Len(features2)
        c[i \in 0..n, j \in 0..m] ==
            IF i = 0 /\ j = 0 THEN Fin(0)
            ELSE IF i = 0 \/ j = 0 THEN PosInf
            ELSE dtw_cell(linalg_norm_diff(features1[i], features2[j]),
                          c[i - 1, j], c[i, j - 1], c[i - 1, j - 1])
    IN  c

\* the distance normalized by the length of the first sequence
calculate_dtw_distance_by_first(features1, features2) ==
    LET n == Len(features1)
        m == Len(features2)
        distance == cost_matrix(features1, features2)[n, m]
    IN  IF n > 0 THEN FDivInt(distance, n) ELSE IF m > 0 THEN PosInf ELSE Fin(0)

calculate_dtw_distance(features1, features2) ==
    LET n == Len(features1)
        m == Len(features2)
        distance == cost_matrix(features1, features2)[n, m]
        max_len == Max(n, m)
    IN  IF max_len > 0 THEN FDivInt(distance, max_len) ELSE Fin(0)

InitDTW ==
    /\ op = "calculate_dtw_distance"
    /\ args \in [features1 : FeatureSeqs, features2 : FeatureSeqs]
    /\ ret = NotCalled
    /\ pc = "call"

CallDTW ==
    /\ pc = "call"
    /\ op = "calculate_dtw_distance"
    /\ ret' = Returned(calculate_dtw_distance(args.features1, args.features2))
    /\ pc' = "done"
    /\ UNCHANGED <<op, args>>

NextDTW == CallDTW

SpecDTW == InitDTW /\ [][NextDTW]_vars

DtwDone == pc = "done" /\ op = "calculate_dtw_distance"

\* C2: for every non-empty feature sequence A, calculate_dtw_distance(A, A)
\* returns 0.
C2_SelfDistanceZero ==
    (DtwDone /\ args.features1 # <<>> /\ args.features1 = args.features2)
        => ret = Returned(Fin(0))

\* C2 witness: the aligner has run on (A, A) with A of two differing vectors.
C2_Witness ==
    /\ DtwDone
    /\ Len(args.features1) = 2
    /\ args.features1[1] # args.features1[2]
    /\ args.features1 = args.features2

\* C3 (as claimed): when exactly one of the two sequences is empty, the
\* aligner returns a finite value, never infinity.
C3_FiniteSentinel ==
    (DtwDone /\ ((args.features1 = <<>>) # (args.features2 = <<>>)))
        => (ret.exc = "none" /\ ~ret.val.inf)

\* The Euclidean distance between frame i of the first sequence and frame j
\* of the second, stated by its square.
LocalDist(i, j) ==
    LET u == args.features1[i]
        v == args.features2[j]
        sumsq == SumSeq([k \in 1..Len(u) |-> (u[k] - v[k]) * (u[k] - v[k])])
    IN  ONE * (CHOOSE d \in 0..sumsq : d * d = sumsq)

\* The cumulative local distances of all monotone warping paths from (1,1)
\* to (i,j): a path reaches (i,j) from (i-1,j), (i,j-1) or (i-1,j-1).
WarpingPathCosts ==
    LET n == Len(args.features1)
        m == Len(args.features2)
        costs[i \in 0..n, j \in 0..m] ==
            IF i = 0 \/ j = 0 THEN {}
            ELSE IF i = 1 /\ j = 1 THEN {LocalDist(1, 1)}
            ELSE {LocalDist(i, j) + c : c \in costs[i - 1, j] \cup costs[i, j - 1] \cup costs[i - 1, j - 1]}
    IN  costs[n, m]

\* C20: for non-empty sequences of lengths n and m the returned distance is
\* finite, is >= 0, is cost[n,m] / max(n,m) of the lattice, and times
\* max(n,m) it is the least cumulative local distance over all monotone
\* warping paths from (1,1) to (n,m).
C20_MinOverWarpingPaths ==
    (DtwDone /\ args.features1 # <<>> /\ args.features2 # <<>>) =>
        LET n == Len(args.features1)
            m == Len(args.features2)
        IN  /\ ret.exc = "none"
            /\ ~ret.val.inf
            /\ ret.val.v >= 0
            /\ ret.val = FDivInt(cost_matrix(args.features1, args.features2)[n, m], Max(n, m))
            /\ ret.val.v * Max(n, m) \in WarpingPathCosts
            /\ \A c \in WarpingPathCosts : ret.val.v * Max(n, m) <= c

\* C20 witness: the aligner has run on two different sequences of two frames
\* whose warping paths do not all cost the same, and returned a positive
\* distance.
C20_Witness ==
    /\ DtwDone
    /\ Len(args.features1) = 2
    /\ Len(args.features2) = 2
    /\ Cardinality(WarpingPathCosts) > 1
    /\ ret.val.v > 0

\* C27: calculate_dtw_distance is symmetric: the value returned for (A, B)
\* is the value of the call on (B, A), and when it is finite it is the
\* final lattice cell of either order divided by the same max(n, m).
C27_Symmetric ==
    DtwDone =>
        LET n == Len(args.features1)
            m == Len(args.features2)
            swapped == calculate_dtw_distance(args.features2, args.features1)
        IN  /\ ret.exc = "none"
            /\ ret.val = swapped
            /\ ~ret.val.inf =>
                   /\ ret.val.v * Max(n, m) = cost_matrix(args.features1, args.features2)[n, m].v
                   /\ swapped.v * Max(m, n) = cost_matrix(args.features2, args.features1)[m, n].v

\* C27 witness: the aligner has run on a sequence of one frame against a
\* different sequence of two frames and returned a positive finite distance.
C27_Witness ==
    /\ DtwDone
    /\ Len(args.features1) = 1
    /\ Len(args.features2) = 2
    /\ ~ret.val.inf
    /\ ret.val.v > 0

(***************************************************************************)
(* Score fusion: PronunciationAnalyzer._calculate_overall_score_enhanced   *)
(***************************************************************************)
Severities == {"critical", "major", "minor"}

\* a TajweedViolation (tajweed_engine.py, lines 23-35); the time range and
\* the expected/actual texts play no part in any computation and are left out
Violation(name, category, position, severity, description, suggestion) ==
    [rule_name |-> name, rule_category |-> category, position |-> position,
     severity |-> severity, description |-> description, suggestion |-> suggestion]

\* the error dict of a violation with the severity fixed to 'major'
TajweedError_major(violation) ==
    [type |-> "tajweed", rule |-> violation.rule_name,
     severity |-> "major", description |-> violation.description,
     suggestion |-> violation.suggestion]

\* the error dict built for a violation (lines 374-380)
TajweedError(violation) ==
    [type |-> "tajweed", rule |-> violation.rule_name,
     severity |-> violation.severity, description |-> violation.description,
     suggestion |-> violation.suggestion]

SampleViolation(severity) ==
    Violation("Compulsory Madd", "Madd", 0, severity,
              "Compulsory Madd requires 4 beats",
              "Hold the Madd letter for exactly 4 beats")

\* every error counted, whatever its severity
CountSeverity_any(errors, sev) == Len(errors)

\* number of entries of errors whose severity is sev:
\* sum(1 for e in pronunciation_errors if e.get('severity') == sev)
CountSeverity(errors, sev) ==
    Cardinality({i \in 1..Len(errors) : errors[i].severity = sev})

\* max(0.0, min(1.0, x)) with nothing done
clamp01_none(x) == x

\* max(0.0, min(1.0, x)) (line 478)
clamp01(x) == Max(0, Min(ONE, x))

\* the default term with 0.0 in place of 0.5
mean_or_default_zero(scores) ==
    IF scores # <<>> THEN SumSeq(scores) \div Len(scores) ELSE 0

\* sum(scores.values()) / len(scores) if scores else 0.5 (lines 448-457);
\* a score map is the sequence of its values
mean_or_default(scores) ==
    IF scores # <<>> THEN SumSeq(scores) \div Len(scores) ELSE ONE \div 2

_calculate_overall_score_enhanced(dtw_distance, phoneme_scores, tajweed_violations, prosody_scores, pronunciation_errors) ==
    LET \* max(0, 1 - dtw_distance); 1 - inf = -inf
        dtw_score == IF dtw_distance.inf THEN 0 ELSE Max(0, ONE - dtw_distance.v)
        phoneme_score == mean_or_default(phoneme_scores)
        prosody_score == mean_or_default(prosody_scores)
        critical_penalty ==
            CountSeverity(pronunciation_errors, "critical") * ((ONE * 2) \div 10)
        major_penalty ==
            CountSeverity(pronunciation_errors, "major") * (ONE \div 10)
        minor_penalty ==
            CountSeverity(pronunciation_errors, "minor") * ((ONE * 5) \div 100)
        tajweed_penalty == Len(tajweed_violations) * ((ONE * 8) \div 100)
        weighted ==
            (dtw_score * 3) \div 10
            + (phoneme_score * 4) \div 10
            + (prosody_score * 15) \div 100
            + ((ONE - tajweed_penalty) * 15) \div 100
        overall_score == weighted - critical_penalty - major_penalty - minor_penalty
    IN  clamp01(overall_score)

DtwDistances == {Fin(0), Fin(ONE \div 2), Fin(2 * ONE), PosInf}
PhonemeScoreMaps == SeqsUpTo({0, ONE}, MaxScores)
ProsodyScoreMaps == SeqsUpTo({ONE \div 2, ONE, 2 * ONE}, MaxScores)
ViolationCounts == (0..MaxViolations) \cup {ManyViolations - 1, ManyViolations}
ViolationLists == {[i \in 1..k |-> SampleViolation("critical")] : k \in ViolationCounts}
ErrorLists ==
    {[i \in 1..Len(s) |-> TajweedError(SampleViolation(s[i]))] :
        s \in SeqsUpTo(Severities, MaxErrors)}
    \cup {[i \in 1..ManyErrors |-> TajweedError(SampleViolation("critical"))]}

InitFusion ==
    /\ op = "_calculate_overall_score_enhanced"
    /\ args \in [dtw_distance : DtwDistances,
                 phoneme_scores : PhonemeScoreMaps,
                 tajweed_violations : ViolationLists,
                 prosody_scores : ProsodyScoreMaps,
                 pronunciation_errors : ErrorLists]
    /\ ret = NotCalled
    /\ pc = "call"

CallFusion ==
    /\ pc = "call"
    /\ op = "_calculate_overall_score_enhanced"
    /\ ret' = Returned(_calculate_overall_score_enhanced(
                  args.dtw_distance, args.phoneme_scores, args.tajweed_violations,
                  args.prosody_scores, args.pronunciation_errors))
    /\ pc' = "done"
    /\ UNCHANGED <<op, args>>

NextFusion == CallFusion

SpecFusion == InitFusion /\ [][NextFusion]_vars

FusionDone == pc = "done" /\ op = "_calculate_overall_score_enhanced"

\* C1: whatever the inputs of score fusion, the returned overall score lies
\* in [0,1]; with 50 critical errors it is exactly 0.
C1_OverallInUnitInterval ==
    FusionDone =>
        /\ ret.exc = "none"
        /\ 0 <= ret.val /\ ret.val <= ONE
        /\ CountSeverity(args.pronunciation_errors, "critical") >= ManyErrors
              => ret.val = 0

\* C1 witness: fusion has run on the all-critical error list with otherwise
\* perfect inputs, and returned 0.
C1_Witness ==
    /\ FusionDone
    /\ Len(args.pronunciation_errors) = ManyErrors
    /\ args.dtw_distance = Fin(0)
    /\ args.phoneme_scores = <<ONE>>
    /\ args.prosody_scores = <<ONE>>
    /\ args.tajweed_violations = <<>>
    /\ ret.val = 0

NeutralFusionInput ==
    /\ args.dtw_distance = Fin(0)
    /\ args.phoneme_scores = <<>>
    /\ args.tajweed_violations = <<>>
    /\ args.prosody_scores = <<>>
    /\ args.pronunciation_errors = <<>>

\* C4 (as claimed): fusion of dtw distance 0, empty maps, no violations and
\* no errors returns 0.775.
C4_Original_0775 ==
    (FusionDone /\ NeutralFusionInput) => ret.val = (ONE * 775) \div 1000

\* C4 (amended): fusion of dtw distance 0, empty maps, no violations and no
\* errors returns 0.725 = 1*0.30 + 0.5*0.40 + 0.5*0.15 + 1*0.15, each empty
\* map contributing the default term 0.5.
C4_Neutral_0725 ==
    (FusionDone /\ NeutralFusionInput) =>
        /\ ret.val = (ONE * 725) \div 1000
        /\ ret.val = (ONE * 30) \div 100 + ((ONE \div 2) * 40) \div 100
                     + ((ONE \div 2) * 15) \div 100 + (ONE * 15) \div 100

\* C4 witness: fusion has run on the neutral input.
C4_Witness == FusionDone /\ NeutralFusionInput /\ ret.exc = "none"

\* The fused score stated over the common denominator 100 * np * nq, where
\* np and nq are the sizes of the two score maps (1 for an empty map, whose
\* term is the default 0.5): FusedNumerator(t) / FusedDenominator is
\*   0.30 * max(0, 1 - dtw) + 0.40 * phonemeTerm + 0.15 * prosodyTerm
\*   + 0.15 * t - (0.20 * #critical + 0.10 * #major + 0.05 * #minor)
\* with t the Tajweed term.
MapSize(scores) == IF scores = <<>> THEN 1 ELSE Len(scores)
MapTotal(scores) == IF scores = <<>> THEN ONE \div 2 ELSE SumSeq(scores)
FusedDenominator == 100 * MapSize(args.phoneme_scores) * MapSize(args.prosody_scores)
FusedNumerator(tajweedTerm) ==
    LET np == MapSize(args.phoneme_scores)
        nq == MapSize(args.prosody_scores)
        dtwTerm == IF args.dtw_distance.inf \/ args.dtw_distance.v >= ONE THEN 0 ELSE ONE - args.dtw_distance.v
        severityCount(sev) == Cardinality({i \in DOMAIN args.pronunciation_errors : args.pronunciation_errors[i].severity = sev})
    IN  30 * np * nq * dtwTerm
        + 40 * nq * MapTotal(args.phoneme_scores)
        + 15 * np * MapTotal(args.prosody_scores)
        + 15 * np * nq * tajweedTerm
        - np * nq * ONE * (20 * severityCount("critical") + 10 * severityCount("major") + 5 * severityCount("minor"))

\* ret.val is the fraction num / FusedDenominator clamped to [0, 1]
IsClampedFraction(num) ==
    IF num <= 0 THEN ret.val = 0
    ELSE IF num >= ONE * FusedDenominator THEN ret.val = ONE
    ELSE ret.val * FusedDenominator = num

ViolationCount == Len(args.tajweed_violations)

\* C18 (as claimed): the Tajweed term of the fused score is
\* 1 - min(1, 0.08 * k) for every violation count k, never negative, so from
\* k = 13 on it adds exactly 0 to the weighted sum.
C18_TajweedTermClamped ==
    FusionDone =>
        LET tajweedTerm == ONE - Min(ONE, (8 * ViolationCount * ONE) \div 100)
        IN  /\ tajweedTerm >= 0
            /\ IsClampedFraction(FusedNumerator(tajweedTerm))

\* C19: for violation counts k up to 12 the fused score is
\* clamp01(0.30 * max(0, 1 - dtw) + 0.40 * phonemeTerm + 0.15 * prosodyTerm
\* + 0.15 * (1 - 0.08 * k) - (0.20 * #critical + 0.10 * #major + 0.05 * #minor)),
\* the two map terms being means, 0.5 for an empty map.
C19_FusionFormula ==
    (FusionDone /\ ViolationCount <= 12) =>
        /\ ret.exc = "none"
        /\ IsClampedFraction(FusedNumerator(ONE - (8 * ViolationCount * ONE) \div 100))

\* C19 witness: fusion has run on 12 violations, a one-entry phoneme map, a
\* two-entry prosody map and a major and a minor error, and returned a score
\* strictly inside (0, 1).
C19_Witness ==
    /\ FusionDone
    /\ ViolationCount = 12
    /\ Len(args.phoneme_scores) = 1
    /\ Len(args.prosody_scores) = 2
    /\ \E i, j \in DOMAIN args.pronunciation_errors :
           args.pronunciation_errors[i].severity = "major" /\ args.pronunciation_errors[j].severity = "minor"
    /\ 0 < ret.val /\ ret.val < ONE

(***************************************************************************)
(* Diacritic text: a sequence of characters, each named in ASCII.          *)
(***************************************************************************)
ALIF == "alif"
WAW == "waw"
YA == "ya"
HAMZA == "hamza"
NOON == "noon"
MEEM == "meem"
BA == "ba"
QAF == "qaf"
TTA == "tta"
JEEM == "jeem"
DAL == "dal"
RA == "ra"
LAM == "lam"
SUKUN == "sukun"
FATHA == "fatha"
DAMMA == "damma"
KASRA == "kasra"
TANWEEN_FATH == "tanween_fath"
TANWEEN_DAMM == "tanween_damm"
TANWEEN_KASR == "tanween_kasr"
\* the remaining letters of the rule catalog
HA == "ha"
AIN == "ain"
HHA == "hha"
GHAIN == "ghain"
KHA == "kha"
KAF == "kaf"
SHEEN == "sheen"
DAD == "dad"
TA == "ta"
SAD == "sad"
ZAY == "zay"
SEEN == "seen"
ZHA == "zha"
DHAL == "dhal"
THA == "tha"
FA == "fa"

(***************************************************************************)
(* The regular expressions of the engine are sequences of character        *)
(* classes; a match is a position where every class holds its character.   *)
(***************************************************************************)
\* the pattern matches text at the 1-based index i
MatchAt(pattern, text, i) ==
    /\ i >= 1
    /\ i + Len(pattern) - 1 <= Len(text)
    /\ \A k \in 1..Len(pattern) : text[i + k - 1] \in pattern[k]

\* re.finditer(pattern, text): the 0-based starts (match.start()) of the
\* non-overlapping matches, scanning left to right
RECURSIVE FindIterFrom(_, _, _)
FindIterFrom(pattern, text, i) ==
    IF i > Len(text) THEN <<>>
    ELSE IF MatchAt(pattern, text, i)
         THEN <<i - 1>> \o FindIterFrom(pattern, text, i + Len(pattern))
         ELSE FindIterFrom(pattern, text, i + 1)

re_finditer(pattern, text) == FindIterFrom(pattern, text, 1)

\* re.search(pattern, text) is not None
re_search(pattern, text) == \E i \in 1..Len(text) : MatchAt(pattern, text, i)

(***************************************************************************)
(* Optional[Dict] of audio features: None, or a dict from some of the keys *)
(* 'duration' and 'ghunnah_duration' to a number of counts.                *)
(***************************************************************************)
None == [none |-> TRUE, dict |-> <<>>]
Some(d) == [none |-> FALSE, dict |-> d]

\* `if audio_features and key in audio_features`
HasKey(audio_features, key) ==
    /\ ~audio_features.none
    /\ DOMAIN audio_features.dict # {}
    /\ key \in DOMAIN audio_features.dict

(***************************************************************************)
(* Tajweed rule engine: TajweedEngine.check_violations and its detectors   *)
(***************************************************************************)
\* the names bound in the module tajweed_engine (imports and classes)
tajweed_module_names ==
    {"List", "Dict", "Tuple", "Optional", "dataclass", "re",
     "TajweedRule", "TajweedViolation", "TajweedEngine"}

\* the names bound in _check_madd_violations when line 337 runs
madd_local_names ==
    {"self", "text", "audio_features", "violations", "madd_letters",
     "compulsory_madd_pattern"}

\* the name line 337 hands to re.finditer
madd_pattern_name == "compulsible_madd_pattern"

\* r'[اوي]ء'
compulsory_madd_pattern == <<{ALIF, WAW, YA}, {HAMZA}>>

_check_madd_violations(text, audio_features) ==
    IF madd_pattern_name \notin madd_local_names \cup tajweed_module_names
    THEN Raised("NameError")
    ELSE LET matches == re_finditer(compulsory_madd_pattern, text)
             hit(i) == /\ HasKey(audio_features, "duration")
                       /\ audio_features.dict["duration"] < 4
             kept == SelectSeq(matches, hit)
         IN  Returned([i \in 1..Len(kept) |->
                 Violation("Compulsory Madd", "Madd", kept[i], "critical",
                           "Compulsory Madd requires 4 beats",
                           "Hold the Madd letter for exactly 4 beats")])

\* r'نْ[ينمو]'
ghunnah_pattern == <<{NOON}, {SUKUN}, {YA, NOON, MEEM, WAW}>>

_check_ghunnah_violations(text, audio_features) ==
    LET matches == re_finditer(ghunnah_pattern, text)
        hit(i) == /\ HasKey(audio_features, "ghunnah_duration")
                  /\ audio_features.dict["ghunnah_duration"] < 2
        kept == SelectSeq(matches, hit)
    IN  Returned([i \in 1..Len(kept) |->
            Violation("Ghunnah with Noon Sakinah", "Ghunnah", kept[i], "major",
                      "Ghunnah requires 2 counts",
                      "Apply proper nasalization for 2 beats")])

complete_idgham == {YA, RA, MEEM, LAM, WAW, NOON}

\* f'(نْ|ً|ٌ|ٍ){letter}' found in text
idgham_search(letter, text) ==
    \/ re_search(<<{NOON}, {SUKUN}, {letter}>>, text)
    \/ re_search(<<{TANWEEN_FATH, TANWEEN_DAMM, TANWEEN_KASR}, {letter}>>, text)

\* the body of the `if re.search(...)` is `pass`: nothing is appended
_check_idgham_violations(text) ==
    LET found == {letter \in complete_idgham : idgham_search(letter, text)}
    IN  Returned(<<>>)

qalqalah_letters == {QAF, TTA, BA, JEEM, DAL}

\* the body of the loop over the matches is `pass`: nothing is appended
_check_qalqalah_violations(text) ==
    LET matches == re_finditer(<<qalqalah_letters, {SUKUN}>>, text)
    IN  Returned(<<>>)

\* both branches on the diacritic are `pass`: nothing is appended
_check_heavy_light_violations(text) ==
    LET matches == re_finditer(<<{RA}, {FATHA, DAMMA, KASRA}>>, text)
    IN  Returned(<<>>)

\* the five detectors in the order of lines 322-326; an exception of one
\* leaves check_violations at once
check_violations(text, audio_features) ==
    LET madd == _check_madd_violations(text, audio_features)
        ghunnah == _check_ghunnah_violations(text, audio_features)
        idgham == _check_idgham_violations(text)
        qalqalah == _check_qalqalah_violations(text)
        heavy_light == _check_heavy_light_violations(text)
    IN  IF madd.exc # "none" THEN madd
        ELSE IF ghunnah.exc # "none" THEN ghunnah
        ELSE IF idgham.exc # "none" THEN idgham
        ELSE IF qalqalah.exc # "none" THEN qalqalah
        ELSE IF heavy_light.exc # "none" THEN heavy_light
        ELSE Returned(madd.val \o ghunnah.val \o idgham.val
                      \o qalqalah.val \o heavy_light.val)

TextAlphabet == {NOON, SUKUN, BA, ALIF, HAMZA, MEEM}
Texts == SeqsUpTo(TextAlphabet, MaxTextLen)

DictsOver(keys, values) == UNION {[ks -> values] : ks \in SUBSET keys}
AudioFeatures ==
    {None} \cup {Some(d) : d \in
        {f \in DictsOver({"duration", "ghunnah_duration"}, {1, 2, 4}) :
            /\ "duration" \in DOMAIN f => f["duration"] \in {1, 4}
            /\ "ghunnah_duration" \in DOMAIN f => f["ghunnah_duration"] \in {1, 2}}}

TextDetectors == {"_check_idgham_violations", "_check_qalqalah_violations"}

InitTajweed ==
    /\ \/ /\ op = "check_violations"
          /\ args \in [text : Texts, audio_features : AudioFeatures]
       \/ /\ op \in TextDetectors
          /\ args \in [text : Texts]
    /\ ret = NotCalled
    /\ pc = "call"

CallCheckViolations ==
    /\ pc = "call"
    /\ op = "check_violations"
    /\ ret' = check_violations(args.text, args.audio_features)
    /\ pc' = "done"
    /\ UNCHANGED <<op, args>>

CallCheckIdgham ==
    /\ pc = "call"
    /\ op = "_check_idgham_violations"
    /\ ret' = _check_idgham_violations(args.text)
    /\ pc' = "done"
    /\ UNCHANGED <<op, args>>

CallCheckQalqalah ==
    /\ pc = "call"
    /\ op = "_check_qalqalah_violations"
    /\ ret' = _check_qalqalah_violations(args.text)
    /\ pc' = "done"
    /\ UNCHANGED <<op, args>>

NextTajweed == CallCheckViolations \/ CallCheckIdgham \/ CallCheckQalqalah

SpecTajweed == InitTajweed /\ [][NextTajweed]_vars

CheckViolationsDone == pc = "done" /\ op = "check_violations"

\* C5 (as claimed): for every text and every audio-features map,
\* check_violations returns a list of violations and never raises.
C5_CheckViolationsReturns ==
    CheckViolationsDone => ret.exc = "none"

\* the violations of a returned list that sit at the 0-based position p
ReportedAt(p) ==
    IF ret.exc = "none"
    THEN {ret.val[i] : i \in {j \in 1..Len(ret.val) : ret.val[j].position = p}}
    ELSE {}

\* C7 (as claimed): a nun with sukun immediately followed by ba is reported,
\* by the engine and by its detector for the silenced nun, as Substitution
\* (Iqlab) and not also as Assimilation (Idgham) or Hiding (Ikhfa).
C7_IqlabOnly ==
    (pc = "done" /\ op \in {"check_violations", "_check_idgham_violations"}) =>
        \A i \in 1..Len(args.text) :
            MatchAt(<<{NOON}, {SUKUN}, {BA}>>, args.text, i) =>
                /\ \E v \in ReportedAt(i - 1) : v.rule_category = "Iqlab"
                /\ \A v \in ReportedAt(i - 1) : v.rule_category \notin {"Idgham", "Ikhfa"}

\* C8 (as claimed): every Qalqalah letter bearing sukun is reported by the
\* Qalqalah detector, with severity major when the sukun is the last character
\* of the text and minor otherwise.
C8_QalqalahSeverity ==
    (pc = "done" /\ op = "_check_qalqalah_violations") =>
        \A i \in 1..Len(args.text) :
            MatchAt(<<qalqalah_letters, {SUKUN}>>, args.text, i) =>
                \E v \in ReportedAt(i - 1) :
                    /\ v.rule_category = "Qalqalah"
                    /\ v.severity = IF i + 1 = Len(args.text) THEN "major" ELSE "minor"

\* C9 (as claimed): check_violations returns a list ordered by non-decreasing
\* character position.
C9_OrderedByPosition ==
    CheckViolationsDone =>
        /\ ret.exc = "none"
        /\ \A i, j \in 1..Len(ret.val) :
               i < j => ret.val[i].position <= ret.val[j].position

\* The elongation detector called on its own.
MaddTexts == SeqsUpTo({ALIF, WAW, HAMZA, BA}, MaxTextLen)
MaddAudioFeatures ==
    {None, Some([k \in {} |-> 0])} \cup {Some([k \in {"duration"} |-> d]) : d \in 1..5}

InitMadd ==
    /\ op = "_check_madd_violations"
    /\ args \in [text : MaddTexts, audio_features : MaddAudioFeatures]
    /\ ret = NotCalled
    /\ pc = "call"

CallCheckMadd ==
    /\ pc = "call"
    /\ op = "_check_madd_violations"
    /\ ret' = _check_madd_violations(args.text, args.audio_features)
    /\ pc' = "done"
    /\ UNCHANGED <<op, args>>

NextMadd == CallCheckMadd

SpecMadd == InitMadd /\ [][NextMadd]_vars

MaddDone == pc = "done" /\ op = "_check_madd_violations"

\* the 0-based positions where alif, waw or ya is immediately followed by
\* hamza
ElongationPositions ==
    {i - 1 : i \in {k \in 1..(Len(args.text) - 1) : args.text[k] \in {ALIF, WAW, YA} /\ args.text[k + 1] = HAMZA}}

\* C25 (as claimed): on a text with an elongation occurrence the detector
\* returns; without a timing signal, or with
\* a measured duration >= 4, it reports nothing; with a duration below 4 it
\* reports a violation at the position of each elongation occurrence, of
\* severity 'critical' when the duration is below 2 and 'major' otherwise.
C25_MaddSeverity ==
    (MaddDone /\ ElongationPositions # {}) =>
        /\ ret.exc = "none"
        /\ LET timed == ~args.audio_features.none /\ "duration" \in DOMAIN args.audio_features.dict
               short == timed /\ args.audio_features.dict["duration"] < 4
           IN  /\ ~short => ret.val = <<>>
               /\ short =>
                      /\ {ret.val[k].position : k \in 1..Len(ret.val)} = ElongationPositions
                      /\ \A k \in 1..Len(ret.val) :
                             ret.val[k].severity = (IF args.audio_features.dict["duration"] < 2 THEN "critical" ELSE "major")

(***************************************************************************)
(* Word aligner: QuranASREngine.get_word_alignment                         *)
(***************************************************************************)
SPACE == "space"
TAB == "tab"
Whitespace == {SPACE, TAB}

\* str.split() without arguments: the maximal runs of non-whitespace
\* characters, in order; cur is the run being read
RECURSIVE SplitFrom(_, _, _)
SplitFrom(text, i, cur) ==
    IF i > Len(text)
    THEN IF cur = <<>> THEN <<>> ELSE <<cur>>
    ELSE IF text[i] \in Whitespace
         THEN (IF cur = <<>> THEN <<>> ELSE <<cur>>) \o SplitFrom(text, i + 1, <<>>)
         ELSE SplitFrom(text, i + 1, Append(cur, text[i]))

str_split(text) == SplitFrom(text, 1, <<>>)

\* min_len with the last compared position left out
alignment_len_short(asr_words, ref_words) ==
    Max(0, Min(Len(asr_words), Len(ref_words)) - 1)

\* min_len (line 241)
alignment_len(asr_words, ref_words) == Min(Len(asr_words), Len(ref_words))

\* the confidence of a matching entry given to every entry
alignment_confidence_flat(is_match) == ONE

\* 'confidence': 1.0 if is_match else 0.5 (line 250)
alignment_confidence(is_match) == IF is_match THEN ONE ELSE ONE \div 2

get_word_alignment(asr_text, reference_text) ==
    LET asr_words == str_split(asr_text)
        ref_words == str_split(reference_text)
        min_len == alignment_len(asr_words, ref_words)
        entry(i) ==
            LET is_match == asr_words[i + 1] = ref_words[i + 1]
            IN  [reference_word |-> ref_words[i + 1],
                 recognized_word |-> asr_words[i + 1],
                 match |-> is_match,
                 position |-> i,
                 confidence |-> alignment_confidence(is_match)]
    IN  [k \in 1..min_len |-> entry(k - 1)]

WordAlphabet == {"a", "b", SPACE}
WordTexts == SeqsUpTo(WordAlphabet, MaxWordTextLen)

InitWordAlign ==
    /\ op = "get_word_alignment"
    /\ args \in [asr_text : WordTexts, reference_text : WordTexts]
    /\ ret = NotCalled
    /\ pc = "call"

CallWordAlign ==
    /\ pc = "call"
    /\ op = "get_word_alignment"
    /\ ret' = Returned(get_word_alignment(args.asr_text, args.reference_text))
    /\ pc' = "done"
    /\ UNCHANGED <<op, args>>

NextWordAlign == CallWordAlign

SpecWordAlign == InitWordAlign /\ [][NextWordAlign]_vars

WordAlignDone == pc = "done" /\ op = "get_word_alignment"

\* The tokens of a text, stated without scanning: a token is a maximal run
\* <<i, j>> of non-whitespace characters, and the k-th token is the run with
\* k - 1 runs before it.
TokenRuns(text) ==
    {r \in (1..Len(text)) \X (1..Len(text)) :
        /\ r[1] <= r[2]
        /\ \A k \in r[1]..r[2] : text[k] \notin Whitespace
        /\ r[1] = 1 \/ text[r[1] - 1] \in Whitespace
        /\ r[2] = Len(text) \/ text[r[2] + 1] \in Whitespace}

NthToken(text, k) ==
    LET r == CHOOSE q \in TokenRuns(text) :
                 Cardinality({p \in TokenRuns(text) : p[1] < q[1]}) = k - 1
    IN  SubSeq(text, r[1], r[2])

\* C10: get_word_alignment returns exactly min(#recognized tokens,
\* #reference tokens) entries; entry i (from 0) has position i and pairs
\* reference token i with recognized token i; the trailing tokens of the
\* longer side give no entry and no error.
C10_PositionWiseUpToMin ==
    WordAlignDone =>
        LET nAsr == Cardinality(TokenRuns(args.asr_text))
            nRef == Cardinality(TokenRuns(args.reference_text))
        IN  /\ ret.exc = "none"
            /\ Len(ret.val) = Min(nAsr, nRef)
            /\ \A k \in 1..Len(ret.val) :
                   /\ ret.val[k].position = k - 1
                   /\ ret.val[k].reference_word = NthToken(args.reference_text, k)
                   /\ ret.val[k].recognized_word = NthToken(args.asr_text, k)

\* C10 witness: the aligner has run on a transcript of one token and a
\* reference of two, and returned the single entry for position 0.
C10_Witness ==
    /\ WordAlignDone
    /\ Cardinality(TokenRuns(args.asr_text)) = 1
    /\ Cardinality(TokenRuns(args.reference_text)) = 2
    /\ Len(ret.val) = 1
    /\ ret.val[1].position = 0

\* C11: in every alignment entry the match flag is true exactly when the
\* recognized token and the reference token at that position are equal, the
\* confidence is 1.0 for a match and 0.5 otherwise, and the number of
\* non-matching entries is the number of compared positions whose tokens
\* differ.
C11_MatchFlagAndConfidence ==
    WordAlignDone =>
        LET compared == 1..Min(Cardinality(TokenRuns(args.asr_text)), Cardinality(TokenRuns(args.reference_text)))
            differing == {k \in compared : NthToken(args.asr_text, k) # NthToken(args.reference_text, k)}
            mismatches == {k \in 1..Len(ret.val) : ~ret.val[k].match}
        IN  /\ \A k \in 1..Len(ret.val) :
                   /\ ret.val[k].match \in BOOLEAN
                   /\ ret.val[k].match <=> (k \in compared /\ k \notin differing)
                   /\ ret.val[k].match => 2 * ret.val[k].confidence = 2 * ONE
                   /\ ~ret.val[k].match => 2 * ret.val[k].confidence = ONE
            /\ Cardinality(mismatches) = Cardinality(differing)

\* C11 witness: the aligner has compared two positions, the first with equal
\* tokens and the second with different tokens.
C11_Witness ==
    /\ WordAlignDone
    /\ Len(ret.val) = 2
    /\ ret.val[1].match /\ ret.val[1].confidence = ONE
    /\ ~ret.val[2].match /\ 2 * ret.val[2].confidence = ONE
    /\ NthToken(args.asr_text, 2) # NthToken(args.reference_text, 2)

(***************************************************************************)
(* The analysis pipeline: PronunciationAnalyzer.analyze_pronunciation and  *)
(* the steps it calls.                                                     *)
(***************************************************************************)
\* The one-character keys of self.arabic_phonemes (lines 53-60).  The file
\* holds the 28 keys as the two-character strings 'Ø§', 'Ø¨', ...; only the
\* key of 'fa' is a single character, U+00D9, so it is the only key a
\* character of a text can equal.
U_GRAVE == "U+00D9"
arabic_phonemes == [c \in {U_GRAVE} |-> "fa"]

\* a dict as the sequence of its items, in insertion order
dict_values(items) == [i \in 1..Len(items) |-> items[i].value]

_analyze_phonemes(user_text, reference_text) ==
    IF user_text = <<>> \/ reference_text = <<>> THEN <<>>
    ELSE LET min_len == Min(Len(user_text), Len(reference_text))
             keyed == SelectSeq([i \in 1..min_len |-> i - 1],
                                LAMBDA i : reference_text[i + 1] \in DOMAIN arabic_phonemes)
         IN  [k \in 1..Len(keyed) |->
                 [key |-> <<arabic_phonemes[reference_text[keyed[k] + 1]], keyed[k]>>,
                  value |-> IF user_text[keyed[k] + 1] = reference_text[keyed[k] + 1]
                            THEN ONE ELSE 0]]

\* audio_load is what the try block of lines 296-306 meets: librosa.load
\* raises (load_ok = FALSE), or gives a recording of `duration` and then
\* librosa.yin raises (yin_ok = FALSE) or gives the pitch track; the except
\* clause keeps whatever was stored before the exception.  audio_path is a
\* non-empty string at every call site.
_check_tajweed_violations_extended(user_text, reference_text, audio_load) ==
    IF user_text # <<>>
    THEN LET keys == IF ~audio_load.load_ok THEN {}
                     ELSE IF ~audio_load.yin_ok THEN {"duration"}
                     ELSE {"duration", "pitch"}
             audio_features == Some([k \in keys |-> audio_load.duration])
         IN  check_violations(reference_text, audio_features)
    ELSE Returned(<<>>)

ProsodyPairs ==
    <<[feature |-> "average_pitch", score |-> "pitch_similarity"],
      [feature |-> "average_intensity", score |-> "intensity_similarity"],
      [feature |-> "duration", score |-> "duration_similarity"],
      [feature |-> "speech_rate", score |-> "speech_rate_similarity"]>>

\* dict.get(key) is truthy: the key is present and its value is not 0
Truthy(d, key) == key \in DOMAIN d /\ d[key] # 0

\* the difference taken relative to the smaller of the two values
prosody_similarity_min(a, b) ==
    LET diff == Abs(a - b)
        mn == Min(a, b)
    IN  ONE - (IF mn > 0 THEN (diff * ONE) \div mn ELSE 0)

\* 1.0 - (diff / max if max > 0 else 0)
prosody_similarity(a, b) ==
    LET diff == Abs(a - b)
        mx == Max(a, b)
    IN  ONE - (IF mx > 0 THEN (diff * ONE) \div mx ELSE 0)

\* a feature held by one summary only is compared against itself
_compare_prosody_defaulting(user_prosody, reference_prosody) ==
    LET keys == DOMAIN user_prosody \cup DOMAIN reference_prosody
        user == [k \in keys |-> IF k \in DOMAIN user_prosody THEN user_prosody[k] ELSE reference_prosody[k]]
        reference == [k \in keys |-> IF k \in DOMAIN reference_prosody THEN reference_prosody[k] ELSE user_prosody[k]]
        compared == SelectSeq(ProsodyPairs, LAMBDA p : Truthy(user, p.feature) /\ Truthy(reference, p.feature))
    IN  [k \in 1..Len(compared) |->
            [key |-> compared[k].score,
             value |-> prosody_similarity(user[compared[k].feature], reference[compared[k].feature])]]

_compare_prosody(user_prosody, reference_prosody) ==
    LET compared == SelectSeq(ProsodyPairs,
                        LAMBDA p : Truthy(user_prosody, p.feature)
                                   /\ Truthy(reference_prosody, p.feature))
    IN  [k \in 1..Len(compared) |->
            [key |-> compared[k].score,
             value |-> prosody_similarity(user_prosody[compared[k].feature],
                                          reference_prosody[compared[k].feature])]]

\* a score of exactly 0.3 taken as major too
phoneme_severity_le(score) == IF 10 * score <= 3 * ONE THEN "major" ELSE "minor"

\* 'major' if score < 0.3 else 'minor' (line 369)
phoneme_severity(score) == IF 10 * score < 3 * ONE THEN "major" ELSE "minor"

_detect_pronunciation_errors(phoneme_scores, tajweed_violations, word_alignment) ==
    LET low == SelectSeq(phoneme_scores, LAMBDA e : 2 * e.value < ONE)
        phoneme_errors ==
            [k \in 1..Len(low) |->
                [type |-> "phoneme", phoneme |-> low[k].key,
                 confidence |-> ONE - low[k].value,
                 severity |-> phoneme_severity(low[k].value)]]
        tajweed_errors ==
            [k \in 1..Len(tajweed_violations) |-> TajweedError(tajweed_violations[k])]
        mismatched == SelectSeq(word_alignment, LAMBDA a : ~a.match)
        word_errors ==
            [k \in 1..Len(mismatched) |->
                [type |-> "word", reference_word |-> mismatched[k].reference_word,
                 recognized_word |-> mismatched[k].recognized_word,
                 position |-> mismatched[k].position, severity |-> "major"]]
    IN  phoneme_errors \o tajweed_errors \o word_errors

\* the slice that keeps the whole list
Take_all(s, n) == s

\* s[:n]
Take(s, n) == SubSeq(s, 1, Min(n, Len(s)))

\* the message appended for one major error (lines 417-425); a message is the
\* template used and the fields put into it
major_message(error) ==
    IF error.type = "tajweed"
    THEN <<[kind |-> "tajweed", fields |-> <<error.description>>]>>
    ELSE IF error.type = "phoneme"
    THEN <<[kind |-> "phoneme", fields |-> <<error.phoneme>>]>>
    ELSE IF error.type = "word"
    THEN <<[kind |-> "word", fields |-> <<error.recognized_word, error.reference_word>>]>>
    ELSE <<>>

\* the loop of lines 416-425 over the errors given
RECURSIVE major_messages(_)
major_messages(errors) ==
    IF errors = <<>> THEN <<>>
    ELSE major_message(Head(errors)) \o major_messages(Tail(errors))

_generate_suggestions(phoneme_scores, tajweed_violations, pronunciation_errors) ==
    LET critical_errors == SelectSeq(pronunciation_errors, LAMBDA e : e.severity = "critical")
        major_errors == SelectSeq(pronunciation_errors, LAMBDA e : e.severity = "major")
        minor_errors == SelectSeq(pronunciation_errors, LAMBDA e : e.severity = "minor")
        summary ==
            IF critical_errors # <<>>
            THEN <<[kind |-> "critical_summary", fields |-> <<Len(critical_errors)>>]>>
            ELSE <<>>
        top == Take(tajweed_violations, 3)
    IN  summary
        \o major_messages(Take(major_errors, 3))
        \o [k \in 1..Len(top) |-> [kind |-> "raw", fields |-> <<top[k].suggestion>>]]

\* x or y, for strings
PyOr(x, y) == IF x # <<>> THEN x ELSE y

\* The collaborators are given by their outcomes: user_mfcc and
\* reference_mfcc (extract_mfcc_features), transcribe (asr_engine.transcribe,
\* returning the text and the language probability), audio_load
\* (librosa.load and librosa.yin), user_prosody and reference_prosody
\* (extract_prosodic_features).  use_asr says whether self.asr_engine is set.
\* An exception of any step outside a try block leaves the method.
analyze_pronunciation(use_asr, user_mfcc, reference_mfcc, transcribe, expected_text, audio_load, user_prosody, reference_prosody) ==
    IF user_mfcc.exc # "none" THEN Raised(user_mfcc.exc)
    ELSE IF reference_mfcc.exc # "none" THEN Raised(reference_mfcc.exc)
    ELSE IF use_asr /\ transcribe.exc # "none" THEN Raised(transcribe.exc)
    ELSE
    LET dtw_distance == calculate_dtw_distance(user_mfcc.val, reference_mfcc.val)
        user_transcription == IF use_asr THEN transcribe.val.text ELSE expected_text
        word_alignment ==
            IF use_asr THEN get_word_alignment(transcribe.val.text, expected_text)
            ELSE <<>>
        phoneme_scores == _analyze_phonemes(user_transcription, expected_text)
        tajweed == _check_tajweed_violations_extended(
                       PyOr(user_transcription, expected_text), expected_text, audio_load)
    IN  IF tajweed.exc # "none" THEN Raised(tajweed.exc)
        ELSE IF user_prosody.exc # "none" THEN Raised(user_prosody.exc)
        ELSE IF reference_prosody.exc # "none" THEN Raised(reference_prosody.exc)
        ELSE
        LET tajweed_violations == tajweed.val
            prosody_scores == _compare_prosody(user_prosody.val, reference_prosody.val)
            pronunciation_errors ==
                _detect_pronunciation_errors(phoneme_scores, tajweed_violations,
                                             word_alignment)
            suggestions ==
                _generate_suggestions(phoneme_scores, tajweed_violations,
                                      pronunciation_errors)
            overall_score ==
                _calculate_overall_score_enhanced(
                    dtw_distance, dict_values(phoneme_scores), tajweed_violations,
                    dict_values(prosody_scores), pronunciation_errors)
        IN  Returned([overall_score |-> overall_score,
                      phoneme_scores |-> phoneme_scores,
                      tajweed_violations |-> tajweed_violations,
                      suggestions |-> suggestions,
                      confidence |-> IF use_asr THEN transcribe.val.language_probability
                                     ELSE (ONE * 8) \div 10,
                      word_alignment |-> word_alignment,
                      prosody_scores |-> prosody_scores,
                      pronunciation_errors |-> pronunciation_errors])

CollaboratorError == "RuntimeError"

PipelineTexts == {<<>>, <<BA>>, <<U_GRAVE, SPACE, BA>>, <<NOON, SUKUN, BA>>}

MfccOutcomes ==
    {Raised(CollaboratorError), Returned(<<>>), Returned(<<<<0, 0>>, <<3, 4>>>>)}

TranscribeOutcomes ==
    {Raised(CollaboratorError)}
    \cup {Returned([text |-> t, language_probability |-> (ONE * 9) \div 10]) :
            t \in PipelineTexts}

AudioLoads ==
    {[load_ok |-> FALSE, yin_ok |-> FALSE, duration |-> 0],
     [load_ok |-> TRUE, yin_ok |-> FALSE, duration |-> 1],
     [load_ok |-> TRUE, yin_ok |-> TRUE, duration |-> 4]}

ProsodyKeys ==
    {"average_pitch", "average_intensity", "max_intensity", "duration", "speech_rate"}

ProsodyOutcomes ==
    {Raised(CollaboratorError),
     Returned([k \in ProsodyKeys |-> 100]),
     Returned([k \in ProsodyKeys |-> IF k = "average_pitch" THEN 0 ELSE 150])}

InitPipeline ==
    /\ op = "analyze_pronunciation"
    /\ args \in [use_asr : BOOLEAN,
                 user_mfcc : MfccOutcomes,
                 reference_mfcc : MfccOutcomes,
                 transcribe : TranscribeOutcomes,
                 expected_text : PipelineTexts,
                 audio_load : AudioLoads,
                 user_prosody : ProsodyOutcomes,
                 reference_prosody : ProsodyOutcomes]
    /\ ret = NotCalled
    /\ pc = "call"

CallAnalyzePronunciation ==
    /\ pc = "call"
    /\ op = "analyze_pronunciation"
    /\ ret' = analyze_pronunciation(
                  args.use_asr, args.user_mfcc, args.reference_mfcc, args.transcribe,
                  args.expected_text, args.audio_load, args.user_prosody,
                  args.reference_prosody)
    /\ pc' = "done"
    /\ UNCHANGED <<op, args>>

NextPipeline == CallAnalyzePronunciation

SpecPipeline == InitPipeline /\ [][NextPipeline]_vars

AnalyzeDone == pc = "done" /\ op = "analyze_pronunciation"

\* a collaborator failed: feature extraction raised, or the ASR engine was
\* used and its transcription raised or came back empty
CollaboratorFailed ==
    \/ args.user_mfcc.exc # "none"
    \/ args.reference_mfcc.exc # "none"
    \/ args.user_prosody.exc # "none"
    \/ args.reference_prosody.exc # "none"
    \/ args.use_asr /\ args.transcribe.exc # "none"
    \/ args.use_asr /\ args.transcribe.exc = "none" /\ args.transcribe.val.text = <<>>

\* C6 (as claimed): when a collaborator fails, analyze_pronunciation does not
\* raise; it returns a report whose overall score is in [0,1] and whose
\* suggestions hold an entry.
C6_DegradedReport ==
    (AnalyzeDone /\ CollaboratorFailed) =>
        /\ ret.exc = "none"
        /\ 0 <= ret.val.overall_score /\ ret.val.overall_score <= ONE
        /\ ret.val.suggestions # <<>>

(***************************************************************************)
(* Prosody comparator: PronunciationAnalyzer._compare_prosody on its own   *)
(***************************************************************************)
\* a summary holds any subset of the five features of
\* extract_prosodic_features, of at most MaxProsodyKeys keys
ProsodyValues == {0, 100, 150}
ProsodySummaries ==
    UNION {[D -> ProsodyValues] : D \in {S \in SUBSET ProsodyKeys : Cardinality(S) <= MaxProsodyKeys}}

InitProsody ==
    /\ op = "_compare_prosody"
    /\ args \in [user_prosody : ProsodySummaries, reference_prosody : ProsodySummaries]
    /\ ret = NotCalled
    /\ pc = "call"

CallCompareProsody ==
    /\ pc = "call"
    /\ op = "_compare_prosody"
    /\ ret' = Returned(_compare_prosody(args.user_prosody, args.reference_prosody))
    /\ pc' = "done"
    /\ UNCHANGED <<op, args>>

NextProsody == CallCompareProsody

SpecProsody == InitProsody /\ [][NextProsody]_vars

CompareProsodyDone == pc = "done" /\ op = "_compare_prosody"

\* the features present in both summaries, and those strictly positive in both
InBoth(f) == f \in DOMAIN args.user_prosody /\ f \in DOMAIN args.reference_prosody
PositiveInBoth(f) == InBoth(f) /\ args.user_prosody[f] > 0 /\ args.reference_prosody[f] > 0

\* the output keys that report feature f, and the similarities reported for it
ScoreKeysOf(f) == {ProsodyPairs[i].score : i \in {j \in 1..Len(ProsodyPairs) : ProsodyPairs[j].feature = f}}
SimilaritiesOf(f) == {ret.val[i].value : i \in {j \in 1..Len(ret.val) : ret.val[j].key \in ScoreKeysOf(f)}}

\* v = 1 - |a - b| / max(a, b), stated without division, and 0 <= v <= 1
IsRelativeSimilarity(v, a, b) ==
    /\ v * Max(a, b) = ONE * (Max(a, b) - Abs(a - b))
    /\ 0 <= v /\ v <= ONE

\* C12 (as claimed): for every feature of the summaries that is strictly
\* positive in both, the output holds the similarity 1 - |a - b| / max(a, b)
\* of that feature, a value in [0, 1].
C12_EveryPositiveFeature ==
    CompareProsodyDone =>
        \A f \in ProsodyKeys :
            PositiveInBoth(f) =>
                /\ SimilaritiesOf(f) # {}
                /\ \A v \in SimilaritiesOf(f) : IsRelativeSimilarity(v, args.user_prosody[f], args.reference_prosody[f])

\* C12 (amended): for each of the four compared features (average_pitch,
\* average_intensity, duration, speech_rate) that is strictly positive in
\* both summaries, the output holds exactly one similarity for it, equal to
\* 1 - |a - b| / max(a, b) and in [0, 1]; max_intensity is never compared.
C12_ComparedPositiveFeature ==
    CompareProsodyDone =>
        /\ SimilaritiesOf("max_intensity") = {}
        /\ \A f \in ProsodyKeys \ {"max_intensity"} :
               PositiveInBoth(f) =>
                   /\ Cardinality({i \in 1..Len(ret.val) : ret.val[i].key \in ScoreKeysOf(f)}) = 1
                   /\ \A v \in SimilaritiesOf(f) : IsRelativeSimilarity(v, args.user_prosody[f], args.reference_prosody[f])

\* C12 witness: the comparator has run on an average pitch of 100 against
\* 150 and reported pitch_similarity = 1 - 50/150 = 2/3.
C12_Witness ==
    /\ CompareProsodyDone
    /\ InBoth("average_pitch")
    /\ args.user_prosody["average_pitch"] = 100
    /\ args.reference_prosody["average_pitch"] = 150
    /\ \E i \in 1..Len(ret.val) : ret.val[i].key = "pitch_similarity" /\ 3 * ret.val[i].value = 2 * ONE

\* C13 (as claimed): a compared feature present in both summaries with value
\* 0 in both is included in the output with similarity 1.0.
C13_ZeroInBothIsOne ==
    CompareProsodyDone =>
        \A f \in ProsodyKeys \ {"max_intensity"} :
            (InBoth(f) /\ args.user_prosody[f] = 0 /\ args.reference_prosody[f] = 0) =>
                SimilaritiesOf(f) = {ONE}

\* a summary without feature f
WithoutFeature(d, f) == [k \in DOMAIN d \ {f} |-> d[k]]

\* C14: a feature absent from the user summary or from the reference summary
\* has no entry in the output, and the output is the one obtained when the
\* feature is absent from both summaries: the similarities of the other
\* features do not depend on it. The output never has more entries than
\* there are features present in both summaries.
C14_AbsentFeatureOmitted ==
    CompareProsodyDone =>
        /\ \A f \in ProsodyKeys :
               ~InBoth(f) =>
                   /\ SimilaritiesOf(f) = {}
                   /\ ret.val = _compare_prosody(WithoutFeature(args.user_prosody, f), WithoutFeature(args.reference_prosody, f))
        /\ Len(ret.val) <= Cardinality({f \in ProsodyKeys : InBoth(f)})

\* C14 witness: the user summary holds average_pitch and duration, the
\* reference summary only duration; the comparator has returned the duration
\* similarity alone.
C14_Witness ==
    /\ CompareProsodyDone
    /\ DOMAIN args.user_prosody = {"average_pitch", "duration"}
    /\ DOMAIN args.reference_prosody = {"duration"}
    /\ args.user_prosody["average_pitch"] > 0
    /\ Len(ret.val) = 1
    /\ ret.val[1].key = "duration_similarity"

(***************************************************************************)
(* Rule catalog: TajweedRule, TajweedEngine.__init__ and the lookups       *)
(***************************************************************************)
\* the dataclass fields without a default (lines 14-17)
TajweedRule_required == {"name", "category", "rule_type", "letters"}

\* the constructor a dataclass generates: a required field that is not
\* passed raises TypeError; duration, conditions and description default
TajweedRule(kwargs) ==
    IF ~(TajweedRule_required \subseteq DOMAIN kwargs)
    THEN Raised("TypeError")
    ELSE Returned([name |-> kwargs.name,
                   category |-> kwargs.category,
                   rule_type |-> kwargs.rule_type,
                   letters |-> kwargs.letters,
                   duration |-> IF "duration" \in DOMAIN kwargs THEN Some(kwargs.duration) ELSE None,
                   conditions |-> None,
                   description |-> IF "description" \in DOMAIN kwargs THEN kwargs.description ELSE ""])

\* the assignments rules[key] = TajweedRule(...) of _initialize_rules, in
\* order, each with the keyword arguments it passes
rule_calls ==
    <<
      [key |-> "throat_letters", kwargs |->
          [name |-> "Throat Letters", category |-> "Makharij", rule_type |-> "articulation",
           letters |-> <<HAMZA, HA, AIN, HHA, GHAIN, KHA>>,
           description |-> "These letters are articulated from different parts of the throat"]],
      [key |-> "tongue_letters", kwargs |->
          [name |-> "Tongue Letters", category |-> "Makharij", rule_type |-> "articulation",
           letters |-> <<QAF, KAF, JEEM, YA, SHEEN, DAD, LAM, NOON, RA, TTA, DAL, TA, SAD, ZAY, SEEN, ZHA, DHAL, THA>>,
           description |-> "Various tongue positions for articulation"]],
      [key |-> "lip_letters", kwargs |->
          [name |-> "Lip Letters", category |-> "Makharij", rule_type |-> "articulation",
           letters |-> <<FA, BA, MEEM, WAW>>, description |-> "Letters articulated using the lips"]],
      [key |-> "natural_madd", kwargs |->
          [name |-> "Natural Madd", category |-> "Madd", rule_type |-> "elongation",
           letters |-> <<ALIF, WAW, YA>>, duration |-> 2,
           description |-> "Natural elongation, approximately 2 beats"]],
      [key |-> "compulsory_madd", kwargs |->
          [name |-> "Compulsory Madd", category |-> "Madd", rule_type |-> "elongation",
           duration |-> 4, description |-> "Harf Madd followed by Hamza in same word (4 beats)"]],
      [key |-> "permissible_madd", kwargs |->
          [name |-> "Permissible Madd", category |-> "Madd", rule_type |-> "elongation",
           duration |-> 2,
           description |-> "Harf Madd followed by Hamza in next word (2, 4, or 6 beats)"]],
      [key |-> "connected_madd", kwargs |->
          [name |-> "Connected Madd", category |-> "Madd", rule_type |-> "elongation",
           duration |-> 5, description |-> "Madd letter followed by Hamza in same word (5 counts)"]],
      [key |-> "separated_madd", kwargs |->
          [name |-> "Separated Madd", category |-> "Madd", rule_type |-> "elongation",
           duration |-> 4, description |-> "Madd letter followed by Hamza in next word (4 counts)"]],
      [key |-> "ghunnah_noon_sakinah", kwargs |->
          [name |-> "Ghunnah with Noon Sakinah", category |-> "Ghunnah",
           rule_type |-> "nasalization", letters |-> <<NOON>>, duration |-> 2,
           description |-> "Nasal sound for 2 counts"]],
      [key |-> "ghunnah_meem_sakinah", kwargs |->
          [name |-> "Ghunnah with Meem Sakinah", category |-> "Ghunnah",
           rule_type |-> "nasalization", letters |-> <<MEEM>>, duration |-> 2,
           description |-> "Nasal sound for 2 counts"]],
      [key |-> "complete_idgham", kwargs |->
          [name |-> "Complete Idgham", category |-> "Idgham", rule_type |-> "assimilation",
           letters |-> <<YA, RA, MEEM, LAM, WAW, NOON>>,
           description |-> "Complete assimilation with Ghunnah"]],
      [key |-> "incomplete_idgham", kwargs |->
          [name |-> "Incomplete Idgham", category |-> "Idgham", rule_type |-> "assimilation",
           letters |-> <<LAM, RA>>, description |-> "Incomplete assimilation without Ghunnah"]],
      [key |-> "idgham_without_ghunnah", kwargs |->
          [name |-> "Idgham without Ghunnah", category |-> "Idgham", rule_type |-> "assimilation",
           letters |-> <<LAM, RA>>,
           description |-> "Assimilation of noon/tanween with lam or ra without Ghunnah"]],
      [key |-> "iqlab", kwargs |->
          [name |-> "Substitution", category |-> "Iqlab", rule_type |-> "substitution",
           letters |-> <<BA>>,
           description |-> "(Arabic) replace noon sakinah or tanween before ba by meem"]],
      [key |-> "idhhar_halqi", kwargs |->
          [name |-> "Clear Pronunciation (Throat Letters)", category |-> "Idhhar",
           rule_type |-> "clear_pronunciation", letters |-> <<HAMZA, HA, AIN, HHA, GHAIN, KHA>>,
           description |-> "Pronounce noon/tanween clearly before throat letters"]],
      [key |-> "idhhar_shafawi", kwargs |->
          [name |-> "Clear Pronunciation (Lip Letters)", category |-> "Idhhar",
           rule_type |-> "clear_pronunciation", letters |-> <<BA>>,
           description |-> "Pronounce meem sakinah clearly before any letter except ba and meem"]],
      [key |-> "ikhfa_haqiqi", kwargs |->
          [name |-> "Real Hiding", category |-> "Ikhfa", rule_type |-> "hiding",
           letters |-> <<TA, THA, JEEM, DAL, DHAL, ZAY, SEEN, SHEEN, SAD, DAD, TTA, ZHA, FA, QAF, KAF>>,
           description |-> "Hide noon/tanween partially in the nose"]],
      [key |-> "ikhfa_shafawi", kwargs |->
          [name |-> "Lip Hiding", category |-> "Ikhfa", rule_type |-> "hiding",
           letters |-> <<MEEM>>, description |-> "Hide meem sakinah on the lips with Ghunnah"]],
      [key |-> "qalqalah_sughra", kwargs |->
          [name |-> "Minor Qalqalah", category |-> "Qalqalah", rule_type |-> "echoing",
           letters |-> <<QAF, TTA, BA, JEEM, DAL>>,
           description |-> "Bouncing sound in middle of word (light)"]],
      [key |-> "qalqalah_kubra", kwargs |->
          [name |-> "Major Qalqalah", category |-> "Qalqalah", rule_type |-> "echoing",
           letters |-> <<QAF, TTA, BA, JEEM, DAL>>,
           description |-> "Bouncing sound at end of word (stronger)"]],
      [key |-> "tafkheem_ra", kwargs |->
          [name |-> "Heavy Raa", category |-> "Tafkheem", rule_type |-> "heavy_light",
           letters |-> <<RA>>, description |-> "Raa is heavy when it has fatha or damma"]],
      [key |-> "tarqeeq_ra", kwargs |->
          [name |-> "Light Raa", category |-> "Tarqeeq", rule_type |-> "heavy_light",
           letters |-> <<RA>>, description |-> "Raa is light when it has kasra"]],
      [key |-> "tafkheem_lam_allah", kwargs |->
          [name |-> "Heavy Laam in Allah", category |-> "Tafkheem", rule_type |-> "heavy_light",
           letters |-> <<LAM>>,
           description |-> "Laaam in 'Allah' is always heavy when preceded by fatha or damma"]],
      [key |-> "emphatic_letters", kwargs |->
          [name |-> "Emphatic Letters", category |-> "Tafkheem", rule_type |-> "heavy_light",
           letters |-> <<SAD, DAD, TTA, ZHA>>, description |-> "Always heavy/emphatic"]],
      [key |-> "waqf_sukun", kwargs |->
          [name |-> "Stop with Sukoon", category |-> "Waqf", rule_type |-> "stopping",
           description |-> "Apply sukoon at stopping point"]],
      [key |-> "tanween_waqf", kwargs |->
          [name |-> "Stop of Tanween", category |-> "Waqf", rule_type |-> "stopping",
           description |-> "Remove tanween when stopping"]],
      [key |-> "ta_marbuta_waqf", kwargs |->
          [name |-> "Stop of Ta Marbuta", category |-> "Waqf", rule_type |-> "stopping",
           description |-> "Pronounce ta marbuta as ha (Arabic: when stopping)"]],
      [key |-> "izhar_shafawi", kwargs |->
          [name |-> "Lip Clear Pronunciation", category |-> "Idhhar",
           rule_type |-> "clear_pronunciation", letters |-> <<BA>>,
           description |-> "Meem sakinah pronounced clearly before any letter except ba and meem"]],
      [key |-> "idgham_mithlain", kwargs |->
          [name |-> "Assimilation of Similar Letters", category |-> "Idgham",
           rule_type |-> "assimilation",
           description |-> "Similar letters merge into one with stress"]]
    >>

\* rules[key] = value on a dict held as the sequence of its items
dict_set(items, key, value) ==
    IF \E i \in 1..Len(items) : items[i].key = key
    THEN [i \in 1..Len(items) |-> IF items[i].key = key THEN [key |-> key, value |-> value] ELSE items[i]]
    ELSE Append(items, [key |-> key, value |-> value])

dict_has(items, key) == \E i \in 1..Len(items) : items[i].key = key
dict_at(items, key) == items[CHOOSE i \in 1..Len(items) : items[i].key = key].value

\* the assignments from the i-th on; the first constructor call that raises
\* ends the method
RECURSIVE initialize_rules_from(_, _)
initialize_rules_from(i, rules) ==
    IF i > Len(rule_calls)
    THEN Returned(rules)
    ELSE LET rule == TajweedRule(rule_calls[i].kwargs)
         IN  IF rule.exc # "none"
             THEN rule
             ELSE initialize_rules_from(i + 1, dict_set(rules, rule_calls[i].key, rule.val))

_initialize_rules == initialize_rules_from(1, <<>>)

\* list(set(...)): the distinct values, in no particular order
_build_rule_metadata(rules) ==
    [rule_categories |-> {rules[i].value.category : i \in 1..Len(rules)},
     rule_types |-> {rules[i].value.rule_type : i \in 1..Len(rules)}]

\* TajweedEngine(): the attributes of the new engine, or the exception
TajweedEngine__init__ ==
    LET rules == _initialize_rules
    IN  IF rules.exc # "none"
        THEN rules
        ELSE Returned([rules |-> rules.val,
                       rule_categories |-> _build_rule_metadata(rules.val).rule_categories,
                       rule_types |-> _build_rule_metadata(rules.val).rule_types])

\* `if rule:` holds for every TajweedRule (the dataclass defines neither
\* __bool__ nor __len__), so only an absent key takes the other branch
get_rule_explanation(rules, rule_name) ==
    IF dict_has(rules, rule_name)
    THEN dict_at(rules, rule_name).description
    ELSE "Rule not found"

get_all_rules_by_category(rules, category) ==
    SelectSeq(dict_values(rules), LAMBDA rule : rule.category = category)

\* f"Rule '{rule_name}' not found" as the sequence of its parts
validate_rule_application(rules, rule_name, text_segment, audio_features) ==
    IF ~dict_has(rules, rule_name)
    THEN <<FALSE, Some(<<"Rule '", rule_name, "' not found">>)>>
    ELSE <<TRUE, None>>

\* one call on the engine: the outcome of the method and the engine after
\* it; none of the four methods assigns an attribute of the engine
engine_call(engine, call) ==
    [engine |-> engine,
     outcome |->
        CASE call.method = "check_violations" ->
                 check_violations(call.text, call.audio_features)
          [] call.method = "get_rule_explanation" ->
                 Returned(get_rule_explanation(engine.rules, call.rule_name))
          [] call.method = "get_all_rules_by_category" ->
                 Returned(get_all_rules_by_category(engine.rules, call.category))
          [] call.method = "validate_rule_application" ->
                 Returned(validate_rule_application(engine.rules, call.rule_name, call.text, call.audio_features))]

\* the calls from the i-th on, made one after the other on the same engine;
\* the caller keeps the outcome of each and goes on after an exception
RECURSIVE engine_calls_from(_, _, _, _)
engine_calls_from(engine, calls, i, outcomes) ==
    IF i > Len(calls)
    THEN [engine |-> engine, outcomes |-> outcomes]
    ELSE LET step == engine_call(engine, calls[i])
         IN  engine_calls_from(step.engine, calls, i + 1, Append(outcomes, step.outcome))

\* engine = TajweedEngine() followed by the calls on it: the exception of
\* the constructor, or the catalog right after construction, the outcomes
\* of the calls and the catalog after them
engine_session(calls) ==
    LET constructed == TajweedEngine__init__
    IN  IF constructed.exc # "none"
        THEN constructed
        ELSE LET final == engine_calls_from(constructed.val, calls, 1, <<>>)
             IN  Returned([rules_constructed |-> constructed.val.rules,
                           outcomes |-> final.outcomes,
                           rules |-> final.engine.rules])

UnknownRule == "unknown_rule"
LookupNames == {"iqlab", "natural_madd", "compulsory_madd", UnknownRule}
LookupCategories == {"Madd", "Waqf", "unknown_category"}
NoName == ""
EngineCalls ==
    [method : {"get_rule_explanation"}, rule_name : LookupNames, category : {NoName}, text : {<<>>}, audio_features : {None}]
    \cup [method : {"validate_rule_application"}, rule_name : LookupNames, category : {NoName}, text : {<<>>, <<NOON, SUKUN, BA>>}, audio_features : {None}]
    \cup [method : {"get_all_rules_by_category"}, rule_name : {NoName}, category : LookupCategories, text : {<<>>}, audio_features : {None}]
    \cup [method : {"check_violations"}, rule_name : {NoName}, category : {NoName}, text : {<<>>, <<NOON, SUKUN, BA>>}, audio_features : {None}]

InitEngine ==
    /\ op = "TajweedEngine"
    /\ args \in [calls : SeqsUpTo(EngineCalls, MaxCalls)]
    /\ ret = NotCalled
    /\ pc = "call"

CallEngineSession ==
    /\ pc = "call"
    /\ op = "TajweedEngine"
    /\ ret' = engine_session(args.calls)
    /\ pc' = "done"
    /\ UNCHANGED <<op, args>>

NextEngine == CallEngineSession

SpecEngine == InitEngine /\ [][NextEngine]_vars

EngineDone == pc = "done" /\ op = "TajweedEngine"

\* the catalog keys, read off the assignments of _initialize_rules
CatalogKeys == {rule_calls[i].key : i \in 1..Len(rule_calls)}
DescriptionOf(key) == rule_calls[CHOOSE i \in 1..Len(rule_calls) : rule_calls[i].key = key].kwargs.description

\* C15 (as claimed): on a constructed engine neither lookup raises;
\* get_rule_explanation returns the rule's description for a catalog
\* identifier and 'Rule not found' for an unknown one;
\* validate_rule_application returns (True, None) for a catalog identifier
\* and (False, a message naming the rule) for an unknown one.
C15_LookupTyped ==
    EngineDone =>
        \A i \in 1..Len(args.calls) :
            LET call == args.calls[i]
            IN  call.method \in {"get_rule_explanation", "validate_rule_application"} =>
                    /\ ret.exc = "none"
                    /\ ret.val.outcomes[i].exc = "none"
                    /\ LET result == ret.val.outcomes[i].val
                       IN  CASE call.method = "get_rule_explanation" ->
                                    IF call.rule_name \in CatalogKeys
                                    THEN result = DescriptionOf(call.rule_name)
                                    ELSE result = "Rule not found"
                             [] call.method = "validate_rule_application" ->
                                    IF call.rule_name \in CatalogKeys
                                    THEN result = <<TRUE, None>>
                                    ELSE /\ result[1] = FALSE
                                         /\ ~result[2].none
                                         /\ \E k \in 1..Len(result[2].dict) : result[2].dict[k] = call.rule_name

\* C17 (as claimed): construction builds the rule catalog, and after any
\* sequence of check_violations, get_rule_explanation,
\* get_all_rules_by_category and validate_rule_application calls the
\* engine's catalog (its keys and every field of every rule) equals the
\* catalog right after construction.
C17_CatalogReadOnly ==
    (EngineDone /\ Len(args.calls) >= 1) =>
        /\ ret.exc = "none"
        /\ {ret.val.rules_constructed[i].key : i \in 1..Len(ret.val.rules_constructed)} = CatalogKeys
        /\ ret.val.rules = ret.val.rules_constructed

\* the letters the assignments of _initialize_rules give to the rules of a
\* category (an assignment without `letters` gives none)
NunOutcomes == {"Idgham", "Ikhfa", "Iqlab", "Idhhar"}
CategoryLetters(category) ==
    UNION {{rule_calls[i].kwargs.letters[k] : k \in 1..Len(rule_calls[i].kwargs.letters)} :
             i \in {j \in 1..Len(rule_calls) : rule_calls[j].kwargs.category = category /\ "letters" \in DOMAIN rule_calls[j].kwargs}}

\* C26 (as claimed): the engine is built with a catalog in which no letter
\* belongs to rules of two different categories among Idgham, Ikhfa, Iqlab
\* and Idhhar, and the letters of these four categories are 28 in all.
C26_LetterPartition ==
    EngineDone =>
        /\ ret.exc = "none"
        /\ \A c1, c2 \in NunOutcomes : c1 # c2 => CategoryLetters(c1) \cap CategoryLetters(c2) = {}
        /\ Cardinality(UNION {CategoryLetters(c) : c \in NunOutcomes}) = 28

(***************************************************************************)
(* PronunciationAnalyzer.compare_with_multiple_references                  *)
(***************************************************************************)
\* the loop from the i-th reference on; references[i] holds what feature
\* extraction and prosody extraction give for that recording
RECURSIVE compare_from(_, _, _, _, _, _, _, _, _, _)
compare_from(use_asr, user_mfcc, transcribe, expected_text, audio_load, user_prosody, references, i, best_feedback, best_score) ==
    IF i > Len(references)
    THEN Returned(best_feedback)
    ELSE LET feedback == analyze_pronunciation(use_asr, user_mfcc, references[i].mfcc, transcribe, expected_text, audio_load, user_prosody, references[i].prosody)
         IN  IF feedback.exc # "none"
             THEN feedback
             ELSE IF feedback.val.overall_score > best_score
                  THEN compare_from(use_asr, user_mfcc, transcribe, expected_text, audio_load, user_prosody, references, i + 1, Some(feedback.val), feedback.val.overall_score)
                  ELSE compare_from(use_asr, user_mfcc, transcribe, expected_text, audio_load, user_prosody, references, i + 1, best_feedback, best_score)

\* best_feedback = None, best_score = 0.0, then the loop
compare_with_multiple_references(use_asr, user_mfcc, transcribe, expected_text, audio_load, user_prosody, references) ==
    compare_from(use_asr, user_mfcc, transcribe, expected_text, audio_load, user_prosody, references, 1, None, 0)

ReferenceOutcomes == [mfcc : MfccOutcomes, prosody : ProsodyOutcomes]

InitMultiRef ==
    /\ op = "compare_with_multiple_references"
    /\ args \in [use_asr : BOOLEAN,
                 user_mfcc : MfccOutcomes,
                 transcribe : TranscribeOutcomes,
                 expected_text : {<<>>, <<NOON, SUKUN, BA>>},
                 audio_load : {[load_ok |-> TRUE, yin_ok |-> TRUE, duration |-> 4]},
                 user_prosody : ProsodyOutcomes,
                 references : SeqsUpTo(ReferenceOutcomes, MaxRefs)]
    /\ ret = NotCalled
    /\ pc = "call"

CallCompareMultiple ==
    /\ pc = "call"
    /\ op = "compare_with_multiple_references"
    /\ ret' = compare_with_multiple_references(
                  args.use_asr, args.user_mfcc, args.transcribe, args.expected_text,
                  args.audio_load, args.user_prosody, args.references)
    /\ pc' = "done"
    /\ UNCHANGED <<op, args>>

NextMultiRef == CallCompareMultiple

SpecMultiRef == InitMultiRef /\ [][NextMultiRef]_vars

CompareMultipleDone == pc = "done" /\ op = "compare_with_multiple_references"

\* every collaborator of the call (feature extraction, transcription,
\* prosody extraction, for the user recording and each reference) succeeded
CollaboratorsSucceeded ==
    /\ args.user_mfcc.exc = "none"
    /\ args.user_prosody.exc = "none"
    /\ args.use_asr => args.transcribe.exc = "none"
    /\ \A i \in 1..Len(args.references) :
           args.references[i].mfcc.exc = "none" /\ args.references[i].prosody.exc = "none"

\* the report of reference i analysed on its own
ReportOf(i) ==
    analyze_pronunciation(args.use_asr, args.user_mfcc, args.references[i].mfcc, args.transcribe, args.expected_text, args.audio_load, args.user_prosody, args.references[i].prosody)

\* C16 (as claimed): over N >= 1 references whose recordings can be
\* processed, compare_with_multiple_references analyses every reference and
\* returns a report (never no result) that is the report of one of the
\* references and whose overall score is the maximum of the N scores.
C16_BestOfAllReferences ==
    (CompareMultipleDone /\ Len(args.references) >= 1 /\ CollaboratorsSucceeded) =>
        /\ ret.exc = "none"
        /\ ~ret.val.none
        /\ \A i \in 1..Len(args.references) :
               /\ ReportOf(i).exc = "none"
               /\ ReportOf(i).val.overall_score <= ret.val.dict.overall_score
        /\ \E i \in 1..Len(args.references) : ReportOf(i).val = ret.val.dict

(***************************************************************************)
(* Error classification: PronunciationAnalyzer._detect_pronunciation_errors *)
(***************************************************************************)
PhonemeKeys == {"ba", "fa"}
PhonemeValues == {0, ONE \div 5, (3 * ONE) \div 10, ONE \div 2, ONE}

\* a phoneme-score dict: items with distinct keys, in insertion order
PhonemeScoreDicts ==
    {[i \in 1..Len(ks) |-> [key |-> ks[i], value |-> vs[i]]] :
        <<ks, vs>> \in {q \in SeqsUpTo(PhonemeKeys, Cardinality(PhonemeKeys)) \X SeqsUpTo(PhonemeValues, Cardinality(PhonemeKeys)) :
                          /\ Len(q[1]) = Len(q[2])
                          /\ \A i, j \in 1..Len(q[1]) : i # j => q[1][i] # q[1][j]}}

SeverityLists(n) == {[i \in 1..Len(sv) |-> SampleViolation(sv[i])] : sv \in SeqsUpTo(Severities, n)}

\* the alignments get_word_alignment gives on a few transcripts
AlignmentTexts == {<<>>, <<"a">>, <<"a", SPACE, "a">>, <<"a", SPACE, "b">>}
WordAlignments == {get_word_alignment(a, r) : a \in AlignmentTexts, r \in AlignmentTexts}

InitDetect ==
    /\ op = "_detect_pronunciation_errors"
    /\ args \in [phoneme_scores : PhonemeScoreDicts,
                 tajweed_violations : SeverityLists(MaxViolations),
                 word_alignment : WordAlignments]
    /\ ret = NotCalled
    /\ pc = "call"

CallDetectErrors ==
    /\ pc = "call"
    /\ op = "_detect_pronunciation_errors"
    /\ ret' = Returned(_detect_pronunciation_errors(args.phoneme_scores, args.tajweed_violations, args.word_alignment))
    /\ pc' = "done"
    /\ UNCHANGED <<op, args>>

NextDetect == CallDetectErrors

SpecDetect == InitDetect /\ [][NextDetect]_vars

DetectDone == pc = "done" /\ op = "_detect_pronunciation_errors"

ErrorsOfType(t) == SelectSeq(ret.val, LAMBDA e : e.type = t)

\* C21: there is a phoneme error for exactly the phoneme entries with score
\* < 0.5 (one each, none for a score >= 0.5); its severity is 'minor' for
\* 0.3 <= score < 0.5 and 'major' for score < 0.3.
C21_PhonemeErrorThresholds ==
    DetectDone =>
        /\ ret.exc = "none"
        /\ \A i \in 1..Len(args.phoneme_scores) :
               LET entry == args.phoneme_scores[i]
                   found == SelectSeq(ErrorsOfType("phoneme"), LAMBDA e : e.phoneme = entry.key)
               IN  /\ 2 * entry.value >= ONE => Len(found) = 0
                   /\ 2 * entry.value < ONE => Len(found) = 1
                   /\ (2 * entry.value < ONE /\ 10 * entry.value >= 3 * ONE) => found[1].severity = "minor"
                   /\ 10 * entry.value < 3 * ONE => found[1].severity = "major"
        /\ \A k \in 1..Len(ErrorsOfType("phoneme")) :
               \E i \in 1..Len(args.phoneme_scores) : args.phoneme_scores[i].key = ErrorsOfType("phoneme")[k].phoneme

\* C21 witness: the scores 0.3 and 0.5 have been classified: one minor
\* phoneme error, for the entry at 0.3, and none for the entry at 0.5.
C21_Witness ==
    /\ DetectDone
    /\ Len(args.phoneme_scores) = 2
    /\ 10 * args.phoneme_scores[1].value = 3 * ONE
    /\ 2 * args.phoneme_scores[2].value = ONE
    /\ Len(ErrorsOfType("phoneme")) = 1
    /\ ErrorsOfType("phoneme")[1].severity = "minor"

\* C22: the tajweed errors are the violations in order, one each, with the
\* violation's severity; the word errors are the non-matching alignment
\* entries in order, one each, all 'major'; the total number of errors is
\* #(phoneme scores < 0.5) + #violations + #non-matching entries.
C22_TajweedAndWordErrors ==
    DetectDone =>
        LET tajweed == ErrorsOfType("tajweed")
            word == ErrorsOfType("word")
            mismatched == SelectSeq(args.word_alignment, LAMBDA a : a.match = FALSE)
            lowScores == {i \in 1..Len(args.phoneme_scores) : 2 * args.phoneme_scores[i].value < ONE}
        IN  /\ Len(tajweed) = Len(args.tajweed_violations)
            /\ \A k \in 1..Len(tajweed) : tajweed[k].severity = args.tajweed_violations[k].severity
            /\ Len(word) = Len(mismatched)
            /\ \A k \in 1..Len(word) :
                   /\ word[k].severity = "major"
                   /\ word[k].position = mismatched[k].position
            /\ Len(ret.val) = Cardinality(lowScores) + Len(args.tajweed_violations) + Len(mismatched)

\* C22 witness: a critical and a minor violation and an alignment with one
\* matching and one non-matching entry have been classified.
C22_Witness ==
    /\ DetectDone
    /\ Len(args.tajweed_violations) = 2
    /\ args.tajweed_violations[1].severity = "critical"
    /\ args.tajweed_violations[2].severity = "minor"
    /\ \E i, j \in 1..Len(args.word_alignment) : args.word_alignment[i].match /\ ~args.word_alignment[j].match
    /\ Len(ErrorsOfType("tajweed")) = 2
    /\ Len(ErrorsOfType("word")) = 1

(***************************************************************************)
(* Suggestions: PronunciationAnalyzer._generate_suggestions, called as     *)
(* analyze_pronunciation calls it, on the errors classified from the same  *)
(* phoneme scores and violations (lines 221-229)                           *)
(***************************************************************************)
SuggestInputs ==
    {[phoneme_scores |-> p, tajweed_violations |-> v,
      pronunciation_errors |-> _detect_pronunciation_errors(p, v, w)] :
        p \in PhonemeScoreDicts, v \in SeverityLists(MaxReported), w \in WordAlignments}

InitSuggest ==
    /\ op = "_generate_suggestions"
    /\ args \in SuggestInputs
    /\ ret = NotCalled
    /\ pc = "call"

CallGenerateSuggestions ==
    /\ pc = "call"
    /\ op = "_generate_suggestions"
    /\ ret' = Returned(_generate_suggestions(args.phoneme_scores, args.tajweed_violations, args.pronunciation_errors))
    /\ pc' = "done"
    /\ UNCHANGED <<op, args>>

NextSuggest == CallGenerateSuggestions

SpecSuggest == InitSuggest /\ [][NextSuggest]_vars

SuggestDone == pc = "done" /\ op = "_generate_suggestions"

TypeSpecificKinds == {"tajweed", "phoneme", "word"}
TypeSpecificMessages == SelectSeq(ret.val, LAMBDA msg : msg.kind \in TypeSpecificKinds)
ErrorsOfSeverity(sev) == SelectSeq(args.pronunciation_errors, LAMBDA e : e.severity = sev)

\* C23 (as claimed): whenever the classified errors are non-empty at least
\* one type-specific message is emitted, also when the errors are all minor
\* or all critical.
C23_TypeSpecificForHighest ==
    (SuggestDone /\ args.pronunciation_errors # <<>>) =>
        /\ ret.exc = "none"
        /\ Len(TypeSpecificMessages) >= 1

\* C24: the suggestion list is, in this order, one critical-count summary
\* (present exactly when there is a critical error, and stating their
\* number), at most 3 type-specific messages, and the raw suggestion strings
\* of the first min(3, #violations) violations in violation order; it has
\* at most 7 entries.
C24_SuggestionStructure ==
    SuggestDone =>
        LET nSummary == IF ErrorsOfSeverity("critical") # <<>> THEN 1 ELSE 0
            nSpecific == Len(TypeSpecificMessages)
            nRaw == IF Len(args.tajweed_violations) < 3 THEN Len(args.tajweed_violations) ELSE 3
        IN  /\ ret.exc = "none"
            /\ Len(ret.val) <= 7
            /\ nSpecific <= 3
            /\ Len(ret.val) = nSummary + nSpecific + nRaw
            /\ nSummary = 1 => ret.val[1] = [kind |-> "critical_summary", fields |-> <<Len(ErrorsOfSeverity("critical"))>>]
            /\ \A k \in 1..Len(ret.val) :
                   /\ ret.val[k].kind = "critical_summary" <=> (nSummary = 1 /\ k = 1)
                   /\ ret.val[k].kind \in TypeSpecificKinds <=> (nSummary < k /\ k <= nSummary + nSpecific)
                   /\ ret.val[k].kind = "raw" <=> k > nSummary + nSpecific
            /\ \A k \in 1..nRaw :
                   ret.val[nSummary + nSpecific + k].fields = <<args.tajweed_violations[k].suggestion>>

\* C24 witness: with four violations, one of them critical, and more than
\* three major errors, the generator has returned the full seven entries,
\* the summary first.
C24_Witness ==
    /\ SuggestDone
    /\ Len(args.tajweed_violations) = 4
    /\ Len(ErrorsOfSeverity("major")) > 3
    /\ Len(ret.val) = 7
    /\ ret.val[1].kind = "critical_summary"
    /\ ret.val[7].kind = "raw"

(***************************************************************************)
(* The upload handler: analyze_recitation (api/routers/audio.py).          *)
(* The handler is a coroutine on one event loop: it can be suspended only  *)
(* at `await file.read()` (line 75), so a request takes two steps, the     *)
(* code before the await and the code after it.  Here args holds the       *)
(* upload of each request, pc the position of each request, and ret what   *)
(* the requests have produced so far: the directory temp_audio, the files  *)
(* it has held, each request's open buffer, the bytes each analysis read   *)
(* and each response.                                                      *)
(***************************************************************************)
Requests == 1..MaxRequests
Filenames == {"a.wav", "b.wav"}
Uploads == {"bytes_x", "bytes_y"}
NoBytes == ""
Missing == "missing"
NoFile == 0

\* f"temp_audio/{file.filename}" (line 71)
file_path(r) == args[r].filename

\* open(file_path, "wb") (line 74): an existing file is truncated and shared,
\* otherwise a new file is created under the path; a file is named by the
\* request that created it
open_wb(world, r) ==
    IF world.temp_audio[file_path(r)] # NoFile
    THEN [world EXCEPT !.files[world.temp_audio[file_path(r)]] = NoBytes,
                       !.buffer[r] = world.temp_audio[file_path(r)]]
    ELSE [world EXCEPT !.temp_audio[file_path(r)] = r,
                       !.files[r] = NoBytes,
                       !.buffer[r] = r]

\* buffer.write(content) and the close at the end of the with block (line
\* 76): the bytes go to the file the buffer was opened on, whether or not
\* the path still names it
buffer_write(world, r) == [world EXCEPT !.files[world.buffer[r]] = args[r].content]

\* librosa.load(file_path) in extract_mfcc_features (pronunciation_analyzer.py
\* line 73): the bytes now under the path, or none when the path is gone
librosa_load(world, r) ==
    IF world.temp_audio[file_path(r)] # NoFile
    THEN world.files[world.temp_audio[file_path(r)]]
    ELSE Missing

\* lines 86-137: the analysis reads the file; a missing file raises
\* FileNotFoundError, and otherwise the analysis of the non-empty expected
\* text of line 83 ends in the NameError of check_violations; either way the
\* except clause builds the error response
analysis_step(world, r) ==
    [world EXCEPT !.read[r] = librosa_load(world, r),
                  !.response[r] = [pronunciation_score |-> 0,
                                   feedback |-> IF librosa_load(world, r) = Missing
                                                THEN "FileNotFoundError"
                                                ELSE check_violations(<<NOON, SUKUN, BA>>, Some([k \in {"duration"} |-> 1])).exc]]

\* finally: if os.path.exists(file_path): os.remove(file_path) (lines 139-142)
remove_temp(world, r) == [world EXCEPT !.temp_audio[file_path(r)] = NoFile]

InitUpload ==
    /\ op = "analyze_recitation"
    /\ args \in [Requests -> [filename : Filenames, content : Uploads]]
    /\ pc = [r \in Requests |-> "start"]
    /\ ret = [temp_audio |-> [f \in Filenames |-> NoFile],
              files |-> [r \in Requests |-> NoBytes],
              buffer |-> [r \in Requests |-> NoFile],
              read |-> [r \in Requests |-> NoBytes],
              response |-> [r \in Requests |-> [pronunciation_score |-> 0, feedback |-> NoBytes]]]

\* lines 68-75, up to the await
OpenAndAwait(r) ==
    /\ op = "analyze_recitation"
    /\ pc[r] = "start"
    /\ ret' = open_wb(ret, r)
    /\ pc' = [pc EXCEPT ![r] = "awaiting"]
    /\ UNCHANGED <<op, args>>

\* lines 75-144, from the await to the return
ResumeAndAnalyze(r) ==
    /\ op = "analyze_recitation"
    /\ pc[r] = "awaiting"
    /\ ret' = remove_temp(analysis_step(buffer_write(ret, r), r), r)
    /\ pc' = [pc EXCEPT ![r] = "returned"]
    /\ UNCHANGED <<op, args>>

NextUpload == \E r \in Requests : OpenAndAwait(r) \/ ResumeAndAnalyze(r)

SpecUpload == InitUpload /\ [][NextUpload]_vars

\* C28 (as claimed): requests that overlap do not interfere, also when they
\* upload under the same filename: the analysis of every request that has
\* returned read exactly the bytes that request uploaded (its temp file was
\* not removed or replaced before its analysis).
C28_NoInterference ==
    op = "analyze_recitation" =>
        \A r \in Requests :
            pc[r] = "returned" => ret.read[r] = args[r].content

(***************************************************************************)
(* Tajweed violations of several analyses of one recitation target:        *)
(* _check_tajweed_violations_extended is called once per analysis, with    *)
(* the same reference text and the same audio-derived features and with    *)
(* the transcript of that analysis.  Here ret is the sequence of the       *)
(* outcomes of the calls made so far.                                      *)
(***************************************************************************)
Analyses == 1..MaxAnalyses
TranscriptTexts == SeqsUpTo({NOON, BA}, MaxTranscriptLen)

InitExtended ==
    /\ op = "_check_tajweed_violations_extended"
    /\ args \in [user_text : [Analyses -> TranscriptTexts],
                 reference_text : PipelineTexts,
                 audio_load : AudioLoads]
    /\ ret = <<>>
    /\ pc = "call"

\* the next analysis reaches line 212
CallCheckExtended ==
    /\ pc = "call"
    /\ op = "_check_tajweed_violations_extended"
    /\ ret' = Append(ret, _check_tajweed_violations_extended(
                              args.user_text[Len(ret) + 1], args.reference_text,
                              args.audio_load))
    /\ pc' = IF Len(ret) + 1 = MaxAnalyses THEN "done" ELSE "call"
    /\ UNCHANGED <<op, args>>

NextExtended == CallCheckExtended

SpecExtended == InitExtended /\ [][NextExtended]_vars

ExtendedDone == pc = "done" /\ op = "_check_tajweed_violations_extended"

\* C29 (as claimed): the Tajweed violations do not depend on what the user
\* recited: two analyses with the same expected text and the same audio
\* features but different non-empty transcripts both get a violation list
\* from _check_tajweed_violations_extended, and the two lists are identical.
C29_ViolationsIgnoreTranscript ==
    ExtendedDone =>
        \A i \in Analyses : \A j \in Analyses :
            (/\ args.user_text[i] # <<>>
             /\ args.user_text[j] # <<>>
             /\ args.user_text[i] # args.user_text[j])
            => /\ ret[i].exc = "none"
               /\ ret[j].exc = "none"
               /\ ret[i].val = ret[j].val

(***************************************************************************)
(* Spaced repetition: SM2Algorithm.update_card (sm2_algorithm.py).         *)
(* ret is the card, which update_card changes in place; args is the        *)
(* quality of the latest call and the number of calls made so far.         *)
(* ease_factor is a float: it is modelled by the multiple of 0.02 it       *)
(* stands for, in the units of ONE.  The float itself can lie a rounding   *)
(* error away from that value, which shows where line 54 truncates a       *)
(* product that is a whole number when computed exactly (200 * 2.28 gives  *)
(* 455.99999999999994 and int() gives 455): there the model allows both    *)
(* results.  Dates are counted in days from the latest call.               *)
(***************************************************************************)
Qualities == 0..5

min_ease_factor == (13 * ONE) \div 10
default_ease_factor == (5 * ONE) \div 2

NoDate == [set |-> FALSE, days |-> 0]
DateIn(days) == [set |-> TRUE, days |-> days]

\* Card(surah_id, ayah_id) with the defaults of lines 14-18
Card ==
    [repetition_count |-> 0,
     interval_days |-> 1,
     ease_factor |-> default_ease_factor,
     last_reviewed |-> NoDate,
     next_review |-> NoDate]

\* 0.1 - (5 - quality) * (0.08 + (5 - quality) * 0.02) (line 57)
ease_delta(quality) ==
    ONE \div 10 - (5 - quality) * ((8 * ONE) \div 100 + (5 - quality) * ((2 * ONE) \div 100))

\* max(self.min_ease_factor, card.ease_factor) (line 58)
clamp_ease_none(ease) == ease
clamp_ease(ease) == Max(min_ease_factor, ease)

\* int(card.interval_days * card.ease_factor) (line 54): the results the
\* float product can give
interval_products(card) ==
    LET product == card.interval_days * card.ease_factor
    IN  {product \div ONE}
        \cup (IF product % ONE = 0 THEN {product \div ONE - 1} ELSE {})

\* update_card (lines 30-64); product is the result of line 54
update_card(card, quality, product) ==
    LET repetition_count == IF quality < 3 THEN 0 ELSE card.repetition_count + 1
        interval_days == IF quality < 3 THEN 1
                         ELSE IF repetition_count = 1 THEN 1
                         ELSE IF repetition_count = 2 THEN 6
                         ELSE product
        ease_factor == IF quality < 3 THEN card.ease_factor
                       ELSE clamp_ease(card.ease_factor + ease_delta(quality))
    IN  [repetition_count |-> repetition_count,
         interval_days |-> interval_days,
         ease_factor |-> ease_factor,
         last_reviewed |-> DateIn(0),
         next_review |-> DateIn(interval_days)]

InitReview ==
    /\ op = "update_card"
    /\ args = [quality |-> 0, review |-> 0]
    /\ ret = Card
    /\ pc = "ready"

UpdateCard ==
    /\ op = "update_card"
    /\ args.review < MaxReviews
    /\ \E quality \in Qualities : \E product \in interval_products(ret) :
          /\ ret' = update_card(ret, quality, product)
          /\ args' = [quality |-> quality, review |-> args.review + 1]
    /\ UNCHANGED <<op, pc>>

NextReview == UpdateCard

SpecReview == InitReview /\ [][NextReview]_vars

\* claim helpers
CardInRange ==
    op = "update_card" =>
        /\ 10 * ret.ease_factor >= 13 * ONE
        /\ ret.interval_days >= 1
        /\ ret.repetition_count >= 0

FailedRecallResets ==
    (op = "update_card" /\ args'.quality < 3)
    => /\ ret'.repetition_count = 0
       /\ ret'.interval_days = 1
       /\ ret'.ease_factor = ret.ease_factor

FirstIntervalsOneThenSix ==
    (op = "update_card" /\ args'.quality >= 3)
    => /\ ret.repetition_count = 0 => ret'.interval_days = 1
       /\ ret.repetition_count = 1 => ret'.interval_days = 6

\* C30: from the default card, after any sequence of update_card calls with
\* qualities 0..5, ease_factor >= 1.3, interval_days >= 1 and
\* repetition_count >= 0; a call with quality < 3 sets repetition_count to 0
\* and interval_days to 1 and leaves ease_factor unchanged; and the first
\* two successful recalls in a row after a reset (or from the start) give
\* the intervals 1 and then 6.
C30_CardInvariants ==
    /\ []CardInRange
    /\ [][FailedRecallResets /\ FirstIntervalsOneThenSix]_vars

\* the ease factor has been driven down to its floor by nine recalls of
\* quality 3, and a failed recall has then reset the card
C30_Witness ==
    /\ op = "update_card"
    /\ args.review = 10
    /\ args.quality < 3
    /\ 10 * ret.ease_factor = 13 * ONE
    /\ ret.repetition_count = 0
    /\ ret.interval_days = 1

====
